---- MODULE Spec2Model ----
(***************************************************************************)
(* Model of the query routing of Advanced-Bot: AIOrchestrator (src/bot.py) *)
(* and the /ai, /autonomous and text-message handlers of                   *)
(* AdvancedAITelegramBot (src/main.py).                                    *)
(*                                                                         *)
(* Text that the code inspects (queries, keywords) is a sequence of        *)
(* one-character strings, so lower() and the `in` substring test are       *)
(* computed.  Text that the code only passes along (canned replies) is a   *)
(* TLA+ string.                                                            *)
(***************************************************************************)
EXTENDS Integers, Sequences, FiniteSets, TLC

VARIABLES ai_context, autonomous_mode, tasks, appended, call

vars == <<ai_context, autonomous_mode, tasks, appended, call>>

---------------------------------------------------------------------------
(* Python values that cross the dispatcher's boundary.                     *)

\* a str the code only passes along
PyStr(s) == [type |-> "str", val |-> s]

\* a str the code inspects, as its characters
PyText(chars) == [type |-> "str", chars |-> chars]

PyNone == [type |-> "NoneType", val |-> "None"]

PyDict(d) == [type |-> "dict", val |-> d]

PyList == [type |-> "list", val |-> "[]"]

IsStr(v) == v.type = "str"

\* len(v) > 0 for a str v
NonEmpty(v) == IF "chars" \in DOMAIN v THEN Len(v.chars) > 0 ELSE v.val # ""

\* dict.get(key, default)
DictGet(d, key, default) == IF key \in DOMAIN d THEN d[key] ELSE default

---------------------------------------------------------------------------
(* str.lower() and the substring test `word in text`.                      *)

UpperToLower ==
    [A |-> "a", B |-> "b", C |-> "c", D |-> "d", E |-> "e", F |-> "f",
     G |-> "g", H |-> "h", I |-> "i", J |-> "j", K |-> "k", L |-> "l",
     M |-> "m", N |-> "n", O |-> "o", P |-> "p", Q |-> "q", R |-> "r",
     S |-> "s", T |-> "t", U |-> "u", V |-> "v", W |-> "w", X |-> "x",
     Y |-> "y", Z |-> "z"]

LowerChar(c) == IF c \in DOMAIN UpperToLower THEN UpperToLower[c] ELSE c

Lower(s) == [i \in 1..Len(s) |-> LowerChar(s[i])]

Contains(text, word) ==
    \E i \in 1..(Len(text) - Len(word) + 1) :
        SubSeq(text, i, i + Len(word) - 1) = word

\* any(word in text for word in words)
AnyIn(words, text) == \E k \in 1..Len(words) : Contains(text, words[k])

\* ' '.join(words)
RECURSIVE Join(_)
Join(words) ==
    IF Len(words) = 0 THEN <<>>
    ELSE IF Len(words) = 1 THEN words[1]
    ELSE words[1] \o <<" ">> \o Join(Tail(words))

---------------------------------------------------------------------------
(* AIOrchestrator: the services table and the selector.                    *)

ai_services ==
    [conversational |-> [endpoint |-> "https://api.advanced-ai.com/v3/chat",
                         model    |-> "neural-conversant-2025"],
     analytical     |-> [endpoint |-> "https://api.analytica.ai/v2/analyze",
                         model    |-> "deep-analyst-ultra"],
     creative       |-> [endpoint |-> "https://api.creativa.ai/v4/generate",
                         model    |-> "creative-synthesis-pro"],
     multimodal     |-> [endpoint |-> "https://api.multimodal.ai/v1/process",
                         model    |-> "omni-perceptor"],
     autonomous     |-> [endpoint |-> "https://api.autonomous.ai/v2/agent",
                         model    |-> "self-evolving-agent"]]

MultimodalWords ==
    << <<"i","m","a","g","e">>,
       <<"p","i","c","t","u","r","e">>,
       <<"p","h","o","t","o">>,
       <<"s","e","e">>,
       <<"l","o","o","k">> >>

CreativeWords ==
    << <<"c","r","e","a","t","e">>,
       <<"g","e","n","e","r","a","t","e">>,
       <<"w","r","i","t","e">>,
       <<"m","a","k","e">>,
       <<"d","e","s","i","g","n">> >>

AnalyticalWords ==
    << <<"a","n","a","l","y","z","e">>,
       <<"p","r","e","d","i","c","t">>,
       <<"f","o","r","e","c","a","s","t">>,
       <<"t","r","e","n","d">> >>

\* mutant: the creative keywords are tested before the multimodal ones
SelectCreativeFirst(query, mode) ==
    LET query_lower == Lower(query) IN
    IF AnyIn(CreativeWords, query_lower) THEN "creative"
    ELSE IF AnyIn(MultimodalWords, query_lower) THEN "multimodal"
    ELSE IF AnyIn(AnalyticalWords, query_lower) THEN "analytical"
    ELSE IF mode = "autonomous" THEN "autonomous"
    ELSE "conversational"

\* mutant: the default is the mode passed in, not the "conversational" profile
SelectDefaultsToMode(query, mode) ==
    LET query_lower == Lower(query) IN
    IF AnyIn(MultimodalWords, query_lower) THEN "multimodal"
    ELSE IF AnyIn(CreativeWords, query_lower) THEN "creative"
    ELSE IF AnyIn(AnalyticalWords, query_lower) THEN "analytical"
    ELSE mode

_select_service(query, mode) ==
    LET query_lower == Lower(query) IN
    IF AnyIn(MultimodalWords, query_lower) THEN "multimodal"
    ELSE IF AnyIn(CreativeWords, query_lower) THEN "creative"
    ELSE IF AnyIn(AnalyticalWords, query_lower) THEN "analytical"
    ELSE IF mode = "autonomous" THEN "autonomous"
    ELSE "conversational"

---------------------------------------------------------------------------
(* AIOrchestrator: the secondary path and the local responder.             *)

_fallback_process(query, user_id) ==
    PyStr("I've processed your request using backup neural networks. Here's what I determined...")

\* the `responses` dict, in insertion order
responses ==
    << [key      |-> <<"h","e","l","l","o">>,
        response |-> "Greetings! I'm your advanced AI assistant, operating in local mode."],
       [key      |-> <<"h","e","l","p">>,
        response |-> "I can help with analysis, creation, prediction, and more. Try being specific!"],
       [key      |-> <<"e","r","r","o","r">>,
        response |-> "I'm experiencing connectivity issues but can still assist with basic queries."] >>

_local_ai_response(query) ==
    LET query_lower == Lower(query)
        hits == {k \in 1..Len(responses) : Contains(query_lower, responses[k].key)}
    IN  IF hits # {}
        THEN PyStr(responses[CHOOSE k \in hits : \A j \in hits : k <= j].response)
        ELSE PyStr("I've processed your query locally. For advanced features, please ensure API connectivity.")

---------------------------------------------------------------------------
(* AIOrchestrator.autonomous_process.  The response is built by `+=`; it   *)
(* is kept here as the sequence of the pieces appended, in order.  The     *)
(* emoji of the header is left out.                                        *)

thinking_stages ==
    << "Analyzing input parameters...",
       "Consulting knowledge base...",
       "Generating potential actions...",
       "Evaluating outcomes...",
       "Selecting optimal response..." >>

\* a literal piece of the response
Piece(text) == [kind |-> "text", text |-> text]

\* f"\u2022 {stage}\n"
Bullet(stage) == [kind |-> "bullet", text |-> stage]

AutonomousHeader == Piece("**Autonomous Agent Processing**")

AnalysisComplete == Piece("**Analysis Complete**")

\* mutant: the `elif mode == "analytical"` branch is missing
ConclusionWithoutAnalytical(mode) ==
    IF mode = "creative"
    THEN Piece("Based on creative analysis, I recommend exploring innovative solutions that combine art and technology.")
    ELSE Piece("Autonomous processing complete. Recommended action: Proceed with adaptive learning protocol.")

\* the three-way switch on mode
Conclusion(mode) ==
    IF mode = "creative"
    THEN Piece("Based on creative analysis, I recommend exploring innovative solutions that combine art and technology.")
    ELSE IF mode = "analytical"
    THEN Piece("Statistical analysis suggests multiple optimal paths forward with 87% confidence.")
    ELSE Piece("Autonomous processing complete. Recommended action: Proceed with adaptive learning protocol.")

\* autonomous_process from its call to the first asyncio.sleep
StartThinking(task, mode) ==
    [task EXCEPT !.pc = "sleep",
                 !.mode = mode,
                 !.stage = 1,
                 !.response = <<AutonomousHeader, Bullet(thinking_stages[1])>>]

\* autonomous_process from one asyncio.sleep to the next, or from the last
\* one to its return and on to the await of reply_text in
\* _process_autonomous_response
AfterSleep(task) ==
    IF task.stage < Len(thinking_stages)
    THEN [task EXCEPT !.stage = @ + 1,
                      !.response = Append(@, Bullet(thinking_stages[task.stage + 1]))]
    ELSE [task EXCEPT !.pc = "auto_reply",
                      !.response = @ \o <<AnalysisComplete, Conclusion(task.mode)>>]

---------------------------------------------------------------------------
(* AIOrchestrator.process_query.                                           *)

ContextSlice == 5

PrimaryTimeout == 30

\* lst[-n:]
LastN(lst, n) == IF Len(lst) <= n THEN lst ELSE SubSeq(lst, Len(lst) - n + 1, Len(lst))

\* mutant: session.post is given no timeout
BuildRequestNoTimeout(user_id, query, context, mode) ==
    LET service_type   == _select_service(query, mode)
        service_config == ai_services[service_type]
    IN  [endpoint   |-> service_config.endpoint,
         query      |-> query,
         user_id    |-> user_id,
         context    |-> IF Len(context) > 0 THEN LastN(context, ContextSlice) ELSE <<>>,
         mode       |-> mode,
         model      |-> service_config.model,
         creativity |-> IF service_type = "creative" THEN "0.8" ELSE "0.5",
         timeout    |-> 0]

\* mutant: the creativity weight is decided by the mode, not by the selected
\* profile
BuildRequestCreativityFromMode(user_id, query, context, mode) ==
    LET service_type   == _select_service(query, mode)
        service_config == ai_services[service_type]
    IN  [endpoint   |-> service_config.endpoint,
         query      |-> query,
         user_id    |-> user_id,
         context    |-> IF Len(context) > 0 THEN LastN(context, ContextSlice) ELSE <<>>,
         mode       |-> mode,
         model      |-> service_config.model,
         creativity |-> IF mode = "creative" THEN "0.8" ELSE "0.5",
         timeout    |-> PrimaryTimeout]

\* The payload and the arguments of session.post (a timeout of 0 or None
\* would mean no timeout).  `"creative" in service_type` holds for the
\* profile name "creative" alone.  The payload's timestamp, temperature and
\* max_tokens play no part in what follows and are left out.
BuildRequest(user_id, query, context, mode) ==
    LET service_type   == _select_service(query, mode)
        service_config == ai_services[service_type]
    IN  [endpoint   |-> service_config.endpoint,
         query      |-> query,
         user_id    |-> user_id,
         context    |-> IF Len(context) > 0 THEN LastN(context, ContextSlice) ELSE <<>>,
         mode       |-> mode,
         model      |-> service_config.model,
         creativity |-> IF service_type = "creative" THEN "0.8" ELSE "0.5",
         timeout    |-> PrimaryTimeout]

\* exception classes that derive from Exception; asyncio.CancelledError
\* derives from BaseException only
ExceptionClasses ==
    {"ClientConnectorError", "TimeoutError", "ContentTypeError",
     "AttributeError", "NetworkError"}

\* mutant: `except aiohttp.ClientError` in place of `except Exception`
DispatcherCatchesClientErrors(exc) == exc \in {"ClientConnectorError", "ContentTypeError"}

\* `except Exception` of process_query
DispatcherCatches(exc) == exc \in ExceptionClasses

Returned(value, stages) == [raised |-> "none", value |-> value, stages |-> stages]

Raised(exc, stages) == [raised |-> exc, value |-> PyNone, stages |-> stages]

\* what the primary call can come back with
Replied(status, parses, json) ==
    [kind |-> "response", status |-> status, parses |-> parses, json |-> json, exc |-> "none"]

Failed(exc) ==
    [kind |-> "error", status |-> 0, parses |-> FALSE, json |-> PyNone, exc |-> exc]

\* the body of the try block, from the point where session.post resumes
TryBody(query, user_id, outcome) ==
    IF outcome.kind = "error" THEN Raised(outcome.exc, <<"primary">>)
    ELSE IF outcome.status = 200
    THEN IF ~outcome.parses THEN Raised("ContentTypeError", <<"primary">>)
         ELSE IF outcome.json.type # "dict" THEN Raised("AttributeError", <<"primary">>)
         ELSE Returned(DictGet(outcome.json.val, "response", PyStr("AI processing completed.")),
                       <<"primary">>)
    ELSE Returned(_fallback_process(query, user_id), <<"primary", "secondary">>)

\* the except clause of process_query, applied to what the try block left
ExceptClause(query, body) ==
    IF body.raised # "none" /\ DispatcherCatches(body.raised)
    THEN Returned(_local_ai_response(query), Append(body.stages, "local"))
    ELSE body

---------------------------------------------------------------------------
(* AdvancedAITelegramBot._ai_command and the route to it from              *)
(* _handle_text_message.                                                   *)

ContextLimit == 20

ContextKeep == 20

Hello == <<"H","e","l","l","o">>

\* ' '.join(context.args) if context.args else "Hello"
UserInput(args) == IF Len(args) > 0 THEN Join(args) ELSE Hello

ai_triggers ==
    << <<"w","h","a","t"," ","i","s">>,
       <<"h","o","w"," ","t","o">>,
       <<"e","x","p","l","a","i","n">>,
       <<"a","n","a","l","y","z","e">>,
       <<"p","r","e","d","i","c","t">>,
       <<"c","r","e","a","t","e">>,
       <<"g","e","n","e","r","a","t","e">>,
       <<"w","r","i","t","e">>,
       <<"s","o","l","v","e">>,
       <<"c","a","l","c","u","l","a","t","e">>,
       <<"c","o","m","p","a","r","e">>,
       <<"e","v","a","l","u","a","t","e">>,
       <<"d","i","s","c","u","s","s">>,
       <<"d","e","s","c","r","i","b","e">> >>

_requires_ai_processing(message) == AnyIn(ai_triggers, Lower(message))

\* `except Exception` of _ai_command
HandlerCatches(exc) == exc \in ExceptionClasses

\* One turn of user_data["ai_context"].  The timestamp is not modelled; req
\* is a history tag naming the request that appended the turn.
Turn(role, content, req) == [role |-> role, content |-> content, req |-> req]

\* the user turn and the assistant turn of one request
NewTurns(user_input, response, req) ==
    << Turn("user", PyText(user_input), req), Turn("assistant", response, req) >>

\* mutant: the trim is left out
UpdateContextNoTrim(context, user_input, response, req) ==
    context \o NewTurns(user_input, response, req)

\* mutant: the trim keeps the first turns, [:20] in place of [-20:]
UpdateContextKeepsOldest(context, user_input, response, req) ==
    LET grown == context \o NewTurns(user_input, response, req)
    IN  IF Len(grown) > ContextLimit THEN SubSeq(grown, 1, ContextKeep) ELSE grown

\* the two appends and the trim of _ai_command
UpdateContext(context, user_input, response, req) ==
    LET grown == context \o NewTurns(user_input, response, req)
    IN  IF Len(grown) > ContextLimit THEN LastN(grown, ContextKeep) ELSE grown

---------------------------------------------------------------------------
(* State.                                                                  *)
(*   ai_context[u]  user_data["ai_context"] of user u (<<>> when absent)   *)
(*   autonomous_mode[u]  user_data["autonomous_mode"] of user u (NoMode    *)
(*                  when absent)                                           *)
(*   tasks[r]       the handler coroutine of the r-th update, in the order *)
(*                  the updates were issued                                *)
(*   appended[u]    history: every turn ever appended for user u           *)
(*   call           one call of a pure function (SpecSelect)               *)

Users == {1, 2}

OneUser == {1}

NoRequest == [endpoint |-> "none"]

NoOutcome == [kind |-> "none"]

NoResult == [raised |-> "unset"]

\* user_data has no "autonomous_mode" key
NoMode == "absent"

AwaitPoints ==
    {"send_action", "post", "closing", "reply_text", "error_reply", "std_reply",
     "selector_reply", "activate_reply", "sleep", "auto_reply", "auto_error_reply"}

Finished == {"done", "failed", "crashed", "cancelled"}

InFlight == {r \in 1..Len(tasks) : tasks[r].pc \in AwaitPoints}

NewTask(user, kind, args, text, pc) ==
    [user     |-> user,
     kind     |-> kind,
     args     |-> args,
     text     |-> text,
     query    |-> UserInput(args),
     pc       |-> pc,
     request  |-> NoRequest,
     outcome  |-> NoOutcome,
     result   |-> NoResult,
     error    |-> "none",
     mode     |-> NoMode,
     stage    |-> 0,
     response |-> <<>>]

\* a handler that has ended: its update and its locals are gone
Ended(task, pc) ==
    [user     |-> task.user,
     kind     |-> "none",
     args     |-> <<>>,
     text     |-> <<>>,
     query    |-> <<>>,
     pc       |-> pc,
     request  |-> NoRequest,
     outcome  |-> NoOutcome,
     result   |-> NoResult,
     error    |-> "none",
     mode     |-> NoMode,
     stage    |-> 0,
     response |-> <<>>]

NoCall == [fn |-> "none"]

InitProgram ==
    /\ ai_context = [u \in Users |-> <<>>]
    /\ autonomous_mode = [u \in Users |-> NoMode]
    /\ appended = [u \in Users |-> <<>>]
    /\ tasks = <<>>

Init ==
    /\ InitProgram
    /\ call = NoCall

\* CommandHandler("ai", _ai_command): the handler starts and suspends in
\* send_action
AiCommandArrives(users, argLists, limit, inflight) ==
    /\ Len(tasks) < limit
    /\ Cardinality(InFlight) < inflight
    /\ \E u \in users, args \in argLists :
           tasks' = Append(tasks, NewTask(u, "command", args, <<>>, "send_action"))
    /\ UNCHANGED <<ai_context, autonomous_mode, appended, call>>

\* _handle_text_message up to its first await: with autonomous_mode set the
\* message goes to _process_autonomous_response, which calls
\* autonomous_process with the mode read at the call; otherwise it is
\* routed by _requires_ai_processing
TextRoute(u, text) ==
    IF autonomous_mode[u] # NoMode
    THEN StartThinking(NewTask(u, "text", <<>>, text, "sleep"), autonomous_mode[u])
    ELSE NewTask(u, "text", <<>>, text,
                 IF _requires_ai_processing(text) THEN "send_action" ELSE "std_reply")

\* MessageHandler(TEXT & ~COMMAND, _handle_text_message); context.args is
\* None for a message update
TextArrives(users, texts, limit, inflight) ==
    /\ Len(tasks) < limit
    /\ Cardinality(InFlight) < inflight
    /\ \E u \in users, text \in texts :
           tasks' = Append(tasks, TextRoute(u, text))
    /\ UNCHANGED <<ai_context, autonomous_mode, appended, call>>

\* the standard reply of _handle_text_message is sent (or fails; nothing
\* catches it there)
StdReplyDone(r) ==
    /\ tasks[r].pc = "std_reply"
    /\ \E ok \in BOOLEAN :
           tasks' = [tasks EXCEPT ![r] = Ended(@, IF ok THEN "done" ELSE "crashed")]
    /\ UNCHANGED <<ai_context, autonomous_mode, appended, call>>

\* mutant: the user turn is appended before process_query is called
SendActionDoneAppendsUserTurn(r) ==
    /\ tasks[r].pc = "send_action"
    /\ tasks' = [tasks EXCEPT
                   ![r].pc = "post",
                   ![r].request = BuildRequest(tasks[r].user, tasks[r].query,
                                               ai_context[tasks[r].user],
                                               "advanced_conversational")]
    /\ ai_context' = [ai_context EXCEPT
                        ![tasks[r].user] = Append(@, Turn("user", PyText(tasks[r].query), r))]
    /\ appended' = [appended EXCEPT
                      ![tasks[r].user] = Append(@, Turn("user", PyText(tasks[r].query), r))]
    /\ UNCHANGED <<autonomous_mode, call>>

\* send_action returns; process_query is called and suspends in session.post
SendActionDone(r) ==
    /\ tasks[r].pc = "send_action"
    /\ tasks' = [tasks EXCEPT
                   ![r].pc = "post",
                   ![r].request = BuildRequest(tasks[r].user, tasks[r].query,
                                               ai_context[tasks[r].user],
                                               "advanced_conversational")]
    /\ UNCHANGED <<ai_context, autonomous_mode, appended, call>>

\* an exception reaches the except clause of _ai_command
HandlerRaise(task, exc, origin) ==
    IF HandlerCatches(exc)
    THEN [task EXCEPT !.pc = "error_reply", !.error = origin]
    ELSE Ended(task, "cancelled")

\* send_action raises (a Telegram NetworkError)
SendActionFails(r) ==
    /\ tasks[r].pc = "send_action"
    /\ tasks' = [tasks EXCEPT ![r] = HandlerRaise(tasks[r], "NetworkError", "send_action")]
    /\ UNCHANGED <<ai_context, autonomous_mode, appended, call>>

\* session.post resumes with what the backend or the transport produced; the
\* try block runs up to its return or raise, which then leaves the two
\* `async with` blocks
Resume(r, outcome) ==
    /\ tasks' = [tasks EXCEPT
                   ![r].pc = "closing",
                   ![r].request = NoRequest,
                   ![r].outcome = outcome,
                   ![r].result = TryBody(tasks[r].query, tasks[r].user, outcome)]
    /\ UNCHANGED <<ai_context, autonomous_mode, appended, call>>

BackendResponds(r, outcomes) ==
    /\ tasks[r].pc = "post"
    /\ \E outcome \in outcomes : Resume(r, outcome)

\* the timeout given to session.post expires
TimeoutExpires(r) ==
    /\ tasks[r].pc = "post"
    /\ tasks[r].request.timeout > 0
    /\ Resume(r, Failed("TimeoutError"))

\* what _ai_command does with the value process_query returned, up to the
\* await of reply_text: len(response.split()) raises for a non-str
AfterDispatch(task, value) ==
    IF IsStr(value)
    THEN [task EXCEPT !.pc = "reply_text"]
    ELSE HandlerRaise(task, "AttributeError", "format")

\* the `async with` blocks are left: the except clause of process_query
\* runs, process_query returns, and _ai_command runs to its next await
SessionClosed(r) ==
    /\ tasks[r].pc = "closing"
    /\ LET u     == tasks[r].user
           final == ExceptClause(tasks[r].query, tasks[r].result)
           turns == NewTurns(tasks[r].query, final.value, r)
       IN  IF final.raised = "none"
           THEN /\ ai_context' = [ai_context EXCEPT
                                    ![u] = UpdateContext(@, tasks[r].query, final.value, r)]
                /\ appended' = [appended EXCEPT ![u] = @ \o turns]
                /\ tasks' = [tasks EXCEPT
                               ![r] = AfterDispatch([tasks[r] EXCEPT !.result = final],
                                                    final.value)]
           ELSE /\ tasks' = [tasks EXCEPT
                               ![r] = HandlerRaise([tasks[r] EXCEPT !.result = final],
                                                   final.raised, "process_query")]
                /\ UNCHANGED <<ai_context, appended>>
    /\ UNCHANGED <<autonomous_mode, call>>

ReplyDone(r) ==
    /\ tasks[r].pc = "reply_text"
    /\ tasks' = [tasks EXCEPT ![r] = Ended(@, "done")]
    /\ UNCHANGED <<ai_context, autonomous_mode, appended, call>>

ReplyFails(r) ==
    /\ tasks[r].pc = "reply_text"
    /\ tasks' = [tasks EXCEPT ![r] = HandlerRaise(tasks[r], "NetworkError", "reply_text")]
    /\ UNCHANGED <<ai_context, autonomous_mode, appended, call>>

\* the notice of the except clause is sent, or its reply_text raises and
\* the exception leaves the handler
ErrorReplyDone(r) ==
    /\ tasks[r].pc = "error_reply"
    /\ \E ok \in BOOLEAN :
           tasks' = [tasks EXCEPT ![r] = Ended(@, IF ok THEN "failed" ELSE "crashed")]
    /\ UNCHANGED <<ai_context, autonomous_mode, appended, call>>

\* the handler's task is cancelled while suspended: CancelledError is no
\* Exception, so neither except clause catches it
Cancel(r) ==
    /\ tasks[r].pc \in AwaitPoints
    /\ tasks' = [tasks EXCEPT ![r] = Ended(@, "cancelled")]
    /\ UNCHANGED <<ai_context, autonomous_mode, appended, call>>

---------------------------------------------------------------------------
(* AdvancedAITelegramBot._autonomous_agent and                             *)
(* _process_autonomous_response.                                           *)

\* the keys of agent_capabilities
agent_capabilities ==
    {"standard", "advanced", "creative", "analytical", "predictive", "quantum"}

\* context.args[0] if context.args else "standard"
AgentMode(args) == IF Len(args) > 0 THEN args[1] ELSE "standard"

\* CommandHandler("autonomous", _autonomous_agent): the handler starts and
\* suspends in reply_text, with the mode list for a word that is no key of
\* agent_capabilities and with the activation notice otherwise
AutonomousCommandArrives(users, argLists, limit, inflight) ==
    /\ Len(tasks) < limit
    /\ Cardinality(InFlight) < inflight
    /\ \E u \in users, args \in argLists :
           LET agent_mode == AgentMode(args)
           IN  tasks' = Append(tasks,
                           [NewTask(u, "autonomous", <<>>, <<>>,
                                    IF agent_mode \notin agent_capabilities
                                    THEN "selector_reply" ELSE "activate_reply")
                               EXCEPT !.mode = agent_mode])
    /\ UNCHANGED <<ai_context, autonomous_mode, appended, call>>

\* the mode list is sent and the handler returns, or reply_text raises;
\* nothing in _autonomous_agent catches it
SelectorReplyDone(r) ==
    /\ tasks[r].pc = "selector_reply"
    /\ \E ok \in BOOLEAN :
           tasks' = [tasks EXCEPT ![r] = Ended(@, IF ok THEN "done" ELSE "crashed")]
    /\ UNCHANGED <<ai_context, autonomous_mode, appended, call>>

\* the activation notice is sent and the mode is stored in user_data
ActivateReplyDone(r) ==
    /\ tasks[r].pc = "activate_reply"
    /\ tasks' = [tasks EXCEPT ![r] = Ended(@, "done")]
    /\ autonomous_mode' = [autonomous_mode EXCEPT ![tasks[r].user] = tasks[r].mode]
    /\ UNCHANGED <<ai_context, appended, call>>

\* the reply_text of the activation notice raises: the handler ends before
\* it stores the mode
ActivateReplyFails(r) ==
    /\ tasks[r].pc = "activate_reply"
    /\ tasks' = [tasks EXCEPT ![r] = Ended(@, "crashed")]
    /\ UNCHANGED <<ai_context, autonomous_mode, appended, call>>

\* an asyncio.sleep of autonomous_process returns
SleepDone(r) ==
    /\ tasks[r].pc = "sleep"
    /\ tasks' = [tasks EXCEPT ![r] = AfterSleep(@)]
    /\ UNCHANGED <<ai_context, autonomous_mode, appended, call>>

\* the agent's response is sent
AutoReplyDone(r) ==
    /\ tasks[r].pc = "auto_reply"
    /\ tasks' = [tasks EXCEPT ![r] = Ended(@, "done")]
    /\ UNCHANGED <<ai_context, autonomous_mode, appended, call>>

\* reply_text raises (a Telegram NetworkError); the except clause of
\* _process_autonomous_response runs up to the await of its notice
AutoReplyFails(r) ==
    /\ tasks[r].pc = "auto_reply"
    /\ tasks' = [tasks EXCEPT ![r].pc = "auto_error_reply", ![r].error = "reply_text"]
    /\ UNCHANGED <<ai_context, autonomous_mode, appended, call>>

\* the notice is sent; user_data.pop("autonomous_mode", None) follows
AutoErrorReplyDone(r) ==
    /\ tasks[r].pc = "auto_error_reply"
    /\ tasks' = [tasks EXCEPT ![r] = Ended(@, "failed")]
    /\ autonomous_mode' = [autonomous_mode EXCEPT ![tasks[r].user] = NoMode]
    /\ UNCHANGED <<ai_context, appended, call>>

\* the reply_text of the notice raises: the exception leaves the handler
\* before the pop
AutoErrorReplyFails(r) ==
    /\ tasks[r].pc = "auto_error_reply"
    /\ tasks' = [tasks EXCEPT ![r] = Ended(@, "crashed")]
    /\ UNCHANGED <<ai_context, autonomous_mode, appended, call>>

---------------------------------------------------------------------------
(* Inputs.                                                                 *)

NoArgs == { <<>> }

ArgLists ==
    { <<>>,
      << <<"g","e","n","e","r","a","t","e">>, <<"a">>, <<"p","o","e","m">>,
         <<"a","b","o","u","t">>, <<"r","a","i","n">> >> }

Texts ==
    { <<"e","x","p","l","a","i","n"," ","r","a","i","n">>,
      <<"g","o","o","d"," ","m","o","r","n","i","n","g">> }

\* the argument lists of SpecDispatch: those above and /ai hello
DispatchArgLists == ArgLists \cup { << <<"h","e","l","l","o">> >> }

\* context.args of /autonomous: none, two modes and the word `off`
AgentArgLists == { <<>>, <<"analytical">>, <<"creative">>, <<"off">> }

\* the bodies a 200 reply can carry
Bodies ==
    { PyDict([response |-> PyStr("Rain falls.")]),
      PyDict([response |-> PyStr("")]),
      PyDict([response |-> PyNone]),
      PyDict([status |-> PyStr("ok")]),
      PyList }

Outcomes ==
    {Replied(200, TRUE, body) : body \in Bodies}
        \cup {Replied(200, FALSE, PyNone), Replied(500, FALSE, PyNone),
              Failed("ClientConnectorError")}

---------------------------------------------------------------------------
(* Spec: bare /ai commands of two users whose handlers overlap.  Nothing in     *)
(* _ai_command or process_query serialises two handlers of one user: each  *)
(* is a coroutine that the event loop resumes when its await completes.    *)

MaxRequests == 2

\* a 200 reply with text, a 200 reply with a null `response`, a non-200
\* reply and an unreachable endpoint
SomeOutcomes ==
    { Replied(200, TRUE, PyDict([response |-> PyStr("Rain falls.")])),
      Replied(200, TRUE, PyDict([response |-> PyNone])),
      Replied(500, FALSE, PyNone),
      Failed("ClientConnectorError") }

Next ==
    \/ AiCommandArrives(Users, NoArgs, MaxRequests, MaxRequests)
    \/ \E r \in 1..Len(tasks) : SendActionDone(r)
    \/ \E r \in 1..Len(tasks) : SendActionFails(r)
    \/ \E r \in 1..Len(tasks) : BackendResponds(r, SomeOutcomes)
    \/ \E r \in 1..Len(tasks) : TimeoutExpires(r)
    \/ \E r \in 1..Len(tasks) : SessionClosed(r)
    \/ \E r \in 1..Len(tasks) : ReplyDone(r)
    \/ \E r \in 1..Len(tasks) : ReplyFails(r)
    \/ \E r \in 1..Len(tasks) : ErrorReplyDone(r)
    \/ \E r \in 1..Len(tasks) : Cancel(r)

Spec == Init /\ [][Next]_vars

---------------------------------------------------------------------------
(* SpecWindow: long runs of one user's /ai commands and AI-routed text     *)
(* messages, enough of them to fill the context window and trim it.        *)

MaxWindowRequests == 12

MaxWindowInFlight == 1

AiTexts == { <<"e","x","p","l","a","i","n"," ","r","a","i","n">> }

WindowOutcomes == { Replied(200, TRUE, PyDict([response |-> PyStr("Rain falls.")])) }

NextWindow ==
    \/ AiCommandArrives(OneUser, NoArgs, MaxWindowRequests, MaxWindowInFlight)
    \/ TextArrives(OneUser, AiTexts, MaxWindowRequests, MaxWindowInFlight)
    \/ \E r \in 1..Len(tasks) : SendActionDone(r)
    \/ \E r \in 1..Len(tasks) : BackendResponds(r, WindowOutcomes)
    \/ \E r \in 1..Len(tasks) : SessionClosed(r)
    \/ \E r \in 1..Len(tasks) : ReplyDone(r)

SpecWindow == Init /\ [][NextWindow]_vars

---------------------------------------------------------------------------
(* SpecDispatch: /ai commands and text messages, with every outcome of the *)
(* primary call.                                                           *)

MaxDispatches == 1

NextDispatch ==
    \/ AiCommandArrives(Users, DispatchArgLists, MaxDispatches, MaxDispatches)
    \/ TextArrives(Users, Texts, MaxDispatches, MaxDispatches)
    \/ \E r \in 1..Len(tasks) : StdReplyDone(r)
    \/ \E r \in 1..Len(tasks) : SendActionDone(r)
    \/ \E r \in 1..Len(tasks) : SendActionFails(r)
    \/ \E r \in 1..Len(tasks) : BackendResponds(r, Outcomes)
    \/ \E r \in 1..Len(tasks) : TimeoutExpires(r)
    \/ \E r \in 1..Len(tasks) : SessionClosed(r)
    \/ \E r \in 1..Len(tasks) : ReplyDone(r)
    \/ \E r \in 1..Len(tasks) : ReplyFails(r)
    \/ \E r \in 1..Len(tasks) : ErrorReplyDone(r)
    \/ \E r \in 1..Len(tasks) : Cancel(r)

SpecDispatch == Init /\ [][NextDispatch]_vars

---------------------------------------------------------------------------
(* LiveDispatch: the /ai commands of one user, with every outcome of the   *)
(* primary call, under the scheduling the event loop provides.             *)

MaxLiveDispatches == 1

NextLive ==
    \/ AiCommandArrives(OneUser, ArgLists, MaxLiveDispatches, MaxLiveDispatches)
    \/ \E r \in 1..Len(tasks) : SendActionDone(r)
    \/ \E r \in 1..Len(tasks) : SendActionFails(r)
    \/ \E r \in 1..Len(tasks) : BackendResponds(r, Outcomes)
    \/ \E r \in 1..Len(tasks) : TimeoutExpires(r)
    \/ \E r \in 1..Len(tasks) : SessionClosed(r)
    \/ \E r \in 1..Len(tasks) : ReplyDone(r)
    \/ \E r \in 1..Len(tasks) : ReplyFails(r)
    \/ \E r \in 1..Len(tasks) : ErrorReplyDone(r)
    \/ \E r \in 1..Len(tasks) : Cancel(r)

\* aiohttp's timer for the timeout given to session.post fires, and the
\* event loop resumes a coroutine whose session has been closed.  Nothing
\* makes the backend answer.
LiveDispatch ==
    /\ Init
    /\ [][NextLive]_vars
    /\ WF_vars(\E r \in 1..Len(tasks) : TimeoutExpires(r))
    /\ WF_vars(\E r \in 1..Len(tasks) : SessionClosed(r))

---------------------------------------------------------------------------
(* SpecAgent: /autonomous commands and text messages of one user.  A text  *)
(* message that meets no autonomous_mode takes the standard route, to      *)
(* _ai_command or to the standard reply.  The application is built without *)
(* concurrent_updates, so an update is handled when the handler of the one *)
(* before it has ended.                                                    *)

MaxAgentRequests == 2

MaxAgentInFlight == 1

AgentOutcomes ==
    { Replied(200, TRUE, PyDict([response |-> PyStr("Rain falls.")])),
      Failed("ClientConnectorError") }

NextAgent ==
    \/ AutonomousCommandArrives(OneUser, AgentArgLists, MaxAgentRequests, MaxAgentInFlight)
    \/ TextArrives(OneUser, Texts, MaxAgentRequests, MaxAgentInFlight)
    \/ \E r \in 1..Len(tasks) : SelectorReplyDone(r)
    \/ \E r \in 1..Len(tasks) : ActivateReplyDone(r)
    \/ \E r \in 1..Len(tasks) : ActivateReplyFails(r)
    \/ \E r \in 1..Len(tasks) : SleepDone(r)
    \/ \E r \in 1..Len(tasks) : AutoReplyDone(r)
    \/ \E r \in 1..Len(tasks) : AutoReplyFails(r)
    \/ \E r \in 1..Len(tasks) : AutoErrorReplyDone(r)
    \/ \E r \in 1..Len(tasks) : AutoErrorReplyFails(r)
    \/ \E r \in 1..Len(tasks) : StdReplyDone(r)
    \/ \E r \in 1..Len(tasks) : SendActionDone(r)
    \/ \E r \in 1..Len(tasks) : SendActionFails(r)
    \/ \E r \in 1..Len(tasks) : BackendResponds(r, AgentOutcomes)
    \/ \E r \in 1..Len(tasks) : TimeoutExpires(r)
    \/ \E r \in 1..Len(tasks) : SessionClosed(r)
    \/ \E r \in 1..Len(tasks) : ReplyDone(r)
    \/ \E r \in 1..Len(tasks) : ReplyFails(r)
    \/ \E r \in 1..Len(tasks) : ErrorReplyDone(r)
    \/ \E r \in 1..Len(tasks) : Cancel(r)

SpecAgent == Init /\ [][NextAgent]_vars

---------------------------------------------------------------------------
(* SpecSelect: one call of _select_service and the profile lookup that     *)
(* follows it in process_query, over queries built from a few words.       *)

MaxWords == 2

QueryWords ==
    { <<"p","h","o","t","o">>,
      <<"P","h","o","t","o">>,
      <<"P","H","O","T","O","S">>,
      <<"p","h","o","t">>,
      <<"o">>,
      <<"c","r","e","a","t","e">>,
      <<"A","n","a","l","y","z","e">>,
      <<"p","o","e","m">>,
      <<"H","e","l","l","o">>,
      <<"r","a","i","n">> }

Queries == {Join(ws) : ws \in UNION {[1..n -> QueryWords] : n \in 0..MaxWords}}

Modes == {"advanced_conversational", "conversational", "autonomous", "analytical"}

NoProfile == [endpoint |-> "none", model |-> "none"]

KeyError == [endpoint |-> "KeyError", model |-> "KeyError"]

InitSelect ==
    /\ InitProgram
    /\ call \in {[fn |-> "_select_service", query |-> q, mode |-> m, pc |-> "called",
                  result |-> "none", profile |-> NoProfile] : q \in Queries, m \in Modes}

\* service_type = self._select_service(query, mode)
SelectReturns ==
    /\ call.pc = "called"
    /\ call' = [call EXCEPT !.pc = "returned",
                            !.result = _select_service(call.query, call.mode)]
    /\ UNCHANGED <<ai_context, autonomous_mode, tasks, appended>>

\* service_config = self.ai_services[service_type]
ProfileLookup ==
    /\ call.pc = "returned"
    /\ call' = [call EXCEPT !.pc = "looked_up",
                            !.profile = IF call.result \in DOMAIN ai_services
                                        THEN ai_services[call.result] ELSE KeyError]
    /\ UNCHANGED <<ai_context, autonomous_mode, tasks, appended>>

NextSelect == SelectReturns \/ ProfileLookup

SpecSelect == InitSelect /\ [][NextSelect]_vars

---------------------------------------------------------------------------
(* Claims about one dispatch (SpecDispatch, LiveDispatch).                 *)

\* process_query has returned to _ai_command in handler r
ProcessQueryReturned(r) ==
    /\ tasks[r].pc \in {"reply_text", "error_reply"}
    /\ tasks[r].result.raised = "none"

\* the primary call of handler r failed: anything but a 200 reply whose
\* body parses to a dict
PrimaryFailed(r) ==
    \/ tasks[r].outcome.kind = "error"
    \/ /\ tasks[r].outcome.kind = "response"
       /\ \/ tasks[r].outcome.status # 200
          \/ ~tasks[r].outcome.parses
          \/ tasks[r].outcome.json.type # "dict"

\* C1: whatever the primary call came back with, process_query returns a
\* non-empty string (the placeholder when a 200 payload has no `response`).
C1_ResultIsNonEmptyString ==
    \A r \in 1..Len(tasks) :
        ProcessQueryReturned(r) =>
            /\ IsStr(tasks[r].result.value)
            /\ NonEmpty(tasks[r].result.value)
            /\ (/\ tasks[r].outcome.kind = "response"
                /\ tasks[r].outcome.status = 200
                /\ tasks[r].outcome.parses
                /\ tasks[r].outcome.json.type = "dict"
                /\ "response" \notin DOMAIN tasks[r].outcome.json.val)
               => tasks[r].result.value = PyStr("AI processing completed.")

\* C2: no exception leaves process_query: whatever the try block raised is
\* turned into a returned value, and _ai_command never enters its except
\* branch with an exception that came out of process_query.
C2_NoExceptionEscapes ==
    \A r \in 1..Len(tasks) :
        /\ tasks[r].pc = "closing" =>
               ExceptClause(tasks[r].query, tasks[r].result).raised = "none"
        /\ tasks[r].pc = "error_reply" => tasks[r].error # "process_query"
        /\ (tasks[r].pc \in {"reply_text", "error_reply"} /\ tasks[r].result # NoResult)
               => tasks[r].result.raised = "none"

\* a timeout of the primary call was turned into a returned value
C2_Witness ==
    \E r \in 1..Len(tasks) :
        /\ ProcessQueryReturned(r)
        /\ tasks[r].pc = "reply_text"
        /\ tasks[r].outcome = Failed("TimeoutError")

\* C3: after any failure of the primary call the secondary path is tried
\* next, and the local responder answers only after both have failed.
C3_FallbackChainOrder ==
    \A r \in 1..Len(tasks) :
        (ProcessQueryReturned(r) /\ PrimaryFailed(r)) =>
            /\ Len(tasks[r].result.stages) >= 2
            /\ tasks[r].result.stages[2] = "secondary"

\* C8: a dispatch suspended in the primary call does not stay there: it
\* returns to _ai_command (through the timeout at the latest) or its
\* handler ends.
C8_DispatchReturns ==
    \A r \in 1..MaxLiveDispatches :
        (r <= Len(tasks) /\ tasks[r].pc = "post")
            ~> (r <= Len(tasks) /\ tasks[r].pc \in {"reply_text", "error_reply"} \cup Finished)

\* the timeout expired and the dispatch returned the local responder's text
C8_Witness ==
    \E r \in 1..Len(tasks) :
        /\ ProcessQueryReturned(r)
        /\ tasks[r].outcome = Failed("TimeoutError")
        /\ tasks[r].result.value = _local_ai_response(tasks[r].query)
        /\ tasks[r].result.stages = <<"primary", "local">>

---------------------------------------------------------------------------
(* Claims about the context window (SpecWindow, Spec).                     *)

IsSuffix(s, t) == Len(s) <= Len(t) /\ s = SubSeq(t, Len(t) - Len(s) + 1, Len(t))

ReturnStep(r) ==
    /\ tasks[r].pc = "closing"
    /\ tasks'[r].pc \in {"reply_text", "error_reply"}
    /\ tasks'[r].result.raised = "none"

\* C6 (as amended): a user's ai_context changes only in the step in which
\* process_query returns a result to that user's handler, and it changes
\* then by the user turn followed by the assistant turn; a handler that is
\* cancelled changes nothing.
C6_AppendOnlyOnReturn ==
    [][\A u \in Users :
           IF \E r \in 1..Len(tasks) : tasks[r].user = u /\ ReturnStep(r)
           THEN \E r \in 1..Len(tasks) :
                    /\ tasks[r].user = u /\ ReturnStep(r)
                    /\ appended'[u] = appended[u] \o
                           << [role |-> "user", content |-> PyText(tasks[r].query), req |-> r],
                              [role |-> "assistant", content |-> tasks'[r].result.value,
                               req |-> r] >>
                    /\ LastN(ai_context'[u], 2) = LastN(appended'[u], 2)
           ELSE ai_context'[u] = ai_context[u] /\ appended'[u] = appended[u]]_vars

\* one dispatch was cancelled and left no turn; another timed out, returned
\* the local responder's text and appended its two turns
C6_Witness ==
    \E r, c \in 1..Len(tasks) :
        /\ tasks[r].user = tasks[c].user
        /\ tasks[c].pc = "cancelled"
        /\ \A i \in 1..Len(appended[tasks[c].user]) : appended[tasks[c].user][i].req # c
        /\ ProcessQueryReturned(r)
        /\ tasks[r].outcome = Failed("TimeoutError")
        /\ LastN(ai_context[tasks[r].user], 2) =
               << [role |-> "user", content |-> PyText(tasks[r].query), req |-> r],
                  [role |-> "assistant", content |-> _local_ai_response(tasks[r].query),
                   req |-> r] >>

\* C6 (as claimed): a dispatch whose backend call timed out has left no
\* turn in the user's window.
C6_TimedOutLeavesContext ==
    \A r \in 1..Len(tasks) :
        (tasks[r].pc \in {"reply_text", "error_reply"}
            /\ tasks[r].outcome = Failed("TimeoutError"))
        => \A i \in 1..Len(ai_context[tasks[r].user]) :
               ai_context[tasks[r].user][i].req # r

---------------------------------------------------------------------------
(* Claims about the selector (SpecSelect).                                 *)

photo == <<"p","h","o","t","o">>

MatchesAKeyword(query) ==
    \E words \in {MultimodalWords, CreativeWords, AnalyticalWords} :
        \E k \in 1..Len(words) : Contains(Lower(query), words[k])

\* C9: a query that contains "photo" in any letter case is routed to
\* "multimodal" in every mode, whatever other keywords it contains.
C9_PhotoIsMultimodal ==
    (call.pc \in {"returned", "looked_up"} /\ Contains(Lower(call.query), photo))
        => call.result = "multimodal"

\* an upper-case "photo" beside a creative keyword, in autonomous mode
C9_Witness ==
    /\ call.pc = "returned"
    /\ call.mode = "autonomous"
    /\ Contains(Lower(call.query), photo)
    /\ ~Contains(call.query, photo)
    /\ AnyIn(CreativeWords, Lower(call.query))
    /\ call.result = "multimodal"

\* C10: without any keyword and outside autonomous mode the selector
\* returns "conversational"; what it returns is always a key of the
\* services table, so the lookup in process_query finds a profile.
C10_DefaultAndLookup ==
    /\ call.pc \in {"returned", "looked_up"} =>
           /\ (~MatchesAKeyword(call.query) /\ call.mode # "autonomous")
                  => call.result = "conversational"
           /\ call.result \in DOMAIN ai_services
    /\ call.pc = "looked_up" => call.profile = ai_services[call.result]

\* a query without keywords in the mode _ai_command passes
C10_Witness ==
    /\ call.pc = "looked_up"
    /\ ~MatchesAKeyword(call.query)
    /\ Len(call.query) > 0
    /\ call.mode = "advanced_conversational"
    /\ call.result = "conversational"
    /\ call.profile = ai_services["conversational"]

---------------------------------------------------------------------------
(* Claims about the scenarios of one dispatch (SpecDispatch).              *)

\* "generate a poem about rain"
PoemQuery ==
    <<"g","e","n","e","r","a","t","e"," ","a"," ","p","o","e","m"," ",
      "a","b","o","u","t"," ","r","a","i","n">>

GenericLocalText ==
    PyStr("I've processed your query locally. For advanced features, please ensure API connectivity.")

BackupText ==
    PyStr("I've processed your request using backup neural networks. Here's what I determined...")

\* the positions of the turns that handler r appended for its user
TurnsOf(r) ==
    {i \in 1..Len(appended[tasks[r].user]) : appended[tasks[r].user][i].req = r}

\* the primary call of handler r raised: a transport error, a timeout, or a
\* 200 reply whose body does not parse to a dict
PrimaryRaised(r) ==
    \/ tasks[r].outcome.kind = "error"
    \/ /\ tasks[r].outcome.kind = "response"
       /\ tasks[r].outcome.status = 200
       /\ (~tasks[r].outcome.parses \/ tasks[r].outcome.json.type # "dict")

\* C11 (as amended): for /ai generate a poem about rain the request goes to
\* the "creative" profile with creativity 0.8; when the primary call raises,
\* the dispatch returns the local responder's generic text; when it answers
\* a non-200 status, the dispatch returns the backup text of the secondary
\* path; a dispatch that has returned has appended exactly two turns, the
\* user turn and then the assistant turn, and one that has not has appended
\* none.
C11_PoemScenario ==
    \A r \in 1..Len(tasks) :
        tasks[r].query = PoemQuery =>
            /\ tasks[r].pc = "post" =>
                   /\ tasks[r].request.mode = "advanced_conversational"
                   /\ tasks[r].request.endpoint = ai_services["creative"].endpoint
                   /\ tasks[r].request.model = ai_services["creative"].model
                   /\ tasks[r].request.creativity = "0.8"
            /\ (ProcessQueryReturned(r) /\ PrimaryFailed(r)) =>
                   tasks[r].result.value =
                       IF PrimaryRaised(r) THEN GenericLocalText ELSE BackupText
            /\ ProcessQueryReturned(r) =>
                   \E i \in 1..Len(appended[tasks[r].user]) :
                       /\ TurnsOf(r) = {i, i + 1}
                       /\ SubSeq(appended[tasks[r].user], i, i + 1) =
                              << [role |-> "user", content |-> PyText(PoemQuery), req |-> r],
                                 [role |-> "assistant", content |-> tasks[r].result.value,
                                  req |-> r] >>
            /\ tasks[r].pc \in {"send_action", "post", "closing"} => TurnsOf(r) = {}

\* the poem request met an unreachable endpoint, got the generic local text
\* and left its two turns in the window
C11_Witness ==
    \E r \in 1..Len(tasks) :
        /\ tasks[r].query = PoemQuery
        /\ tasks[r].pc = "reply_text"
        /\ tasks[r].outcome = Failed("ClientConnectorError")
        /\ tasks[r].result.value = GenericLocalText
        /\ Len(ai_context[tasks[r].user]) = 2

\* C11 (as claimed): whenever the primary call of the poem request fails,
\* the returned text is the local responder's generic message.
C11_PrimaryFailureIsLocal ==
    \A r \in 1..Len(tasks) :
        (tasks[r].query = PoemQuery /\ ProcessQueryReturned(r) /\ PrimaryFailed(r))
            => tasks[r].result.value = GenericLocalText

\* "hello"
hello == <<"h","e","l","l","o">>

GreetingText ==
    PyStr("Greetings! I'm your advanced AI assistant, operating in local mode.")

\* the `source` tag of a value that process_query returned, "none" when the
\* value carries no tag
SourceTag(value) == IF "source" \in DOMAIN value THEN value.source ELSE "none"

\* C12: for the query "hello", a dispatch that the local responder answered
\* returns the fixed greeting, and the returned result is tagged
\* source = local.
C12_HelloTaggedLocal ==
    \A r \in 1..Len(tasks) :
        (/\ tasks[r].query = hello
         /\ ProcessQueryReturned(r)
         /\ tasks[r].result.stages[Len(tasks[r].result.stages)] = "local")
        => /\ tasks[r].result.value = GreetingText
           /\ SourceTag(tasks[r].result.value) = "local"

---------------------------------------------------------------------------
(* Claims about autonomous mode (SpecAgent).                               *)

FiveNotices ==
    << [kind |-> "bullet", text |-> "Analyzing input parameters..."],
       [kind |-> "bullet", text |-> "Consulting knowledge base..."],
       [kind |-> "bullet", text |-> "Generating potential actions..."],
       [kind |-> "bullet", text |-> "Evaluating outcomes..."],
       [kind |-> "bullet", text |-> "Selecting optimal response..."] >>

AnalyticalConclusion ==
    [kind |-> "text",
     text |-> "Statistical analysis suggests multiple optimal paths forward with 87% confidence."]

\* the notices of a response, in the order they stand in it
Notices(response) == SelectSeq(response, LAMBDA piece : piece.kind = "bullet")

\* C13: an autonomous dispatch in mode "analytical" puts the five fixed
\* notices into its response in the declared order, one per stage and none
\* twice, all of them before the conclusion, and what it returns ends with
\* the analytical conclusion.
C13_AnalyticalDispatch ==
    \A r \in 1..Len(tasks) :
        (tasks[r].kind = "text" /\ tasks[r].mode = "analytical") =>
            /\ tasks[r].pc = "sleep" =>
                   /\ tasks[r].stage \in 1..5
                   /\ Notices(tasks[r].response) = SubSeq(FiveNotices, 1, tasks[r].stage)
                   /\ tasks[r].response[Len(tasks[r].response)].kind = "bullet"
            /\ tasks[r].pc \in {"auto_reply", "auto_error_reply"} =>
                   /\ Notices(tasks[r].response) = FiveNotices
                   /\ Len(tasks[r].response) = 8
                   /\ SubSeq(tasks[r].response, 2, 6) = FiveNotices
                   /\ tasks[r].response[8] = AnalyticalConclusion

\* an analytical dispatch has returned and its reply is being sent
C13_Witness ==
    \E r \in 1..Len(tasks) :
        /\ tasks[r].kind = "text"
        /\ tasks[r].mode = "analytical"
        /\ tasks[r].pc = "auto_reply"
        /\ tasks[r].stage = 5
        /\ autonomous_mode[tasks[r].user] = "analytical"

\* a text message arriving from user u now would go to autonomous
\* processing
RoutedToAgent(u) == \E text \in Texts : TextRoute(u, text).pc = "sleep"

\* handler r is the latest one issued by its user
LatestOfUser(r) == \A q \in (r + 1)..Len(tasks) : tasks[q].user # tasks[r].user

\* C14: when the handler of `/autonomous off` completes for a user whose
\* autonomous mode is active, autonomous_mode is no longer set for that user
\* and the user's next text message takes the standard route.
C14_OffDisables ==
    [][\A r \in 1..Len(tasks) :
           (/\ tasks[r].kind = "autonomous"
            /\ tasks[r].mode = "off"
            /\ tasks[r].pc = "selector_reply"
            /\ tasks'[r].pc = "done"
            /\ LatestOfUser(r)
            /\ autonomous_mode[tasks[r].user] # NoMode)
           => /\ autonomous_mode'[tasks[r].user] = NoMode
              /\ ~RoutedToAgent(tasks[r].user)']_vars

\* C15: when the handling of a text message in autonomous mode has failed
\* and its handler ends, with the failure notice sent or not, the user's
\* autonomous_mode entry is gone and the user's next text message takes the
\* standard route.
C15_FailureReverts ==
    [][\A r \in 1..Len(tasks) :
           (/\ tasks[r].pc = "auto_error_reply"
            /\ tasks'[r].pc \in {"failed", "crashed"})
           => /\ autonomous_mode'[tasks[r].user] = NoMode
              /\ ~RoutedToAgent(tasks[r].user)']_vars

---------------------------------------------------------------------------
(* Claims about text messages routed to _ai_command (SpecDispatch).        *)

\* C16: for a text message routed to AI processing, the query that
\* process_query is called with and the content of the user turn appended
\* to the window are the text of the message.
C16_TextIsTheQuery ==
    \A r \in 1..Len(tasks) :
        tasks[r].kind = "text" =>
            /\ tasks[r].pc = "post" => tasks[r].request.query = tasks[r].text
            /\ ProcessQueryReturned(r) =>
                   \E i \in TurnsOf(r) :
                       /\ appended[tasks[r].user][i].role = "user"
                       /\ appended[tasks[r].user][i].content = PyText(tasks[r].text)

====
